---- MODULE Spec2Model ----
(***************************************************************************)
(* The streaming job-orchestration pipeline of the video summarizer:       *)
(* process_video_stream and its generator generate() (backend/app.py),     *)
(* with the SimpleVideoToText stages it drives (backend/video_processor.py)*)
(* Several requests run concurrently, one thread each; they share the      *)
(* working directory (the fixed name temp_audio.wav) and the database.     *)
(*                                                                         *)
(* A generator step is the code between two yields. Steps that touch the   *)
(* shared directory are split at each file-system call, because another    *)
(* request's thread may run between two such calls. The file system has    *)
(* POSIX semantics: os.remove fails only when the file is absent.          *)
(* Authentication precedes everything modelled here and is taken to have   *)
(* succeeded: run r is the request of user r.                              *)
(***************************************************************************)
EXTENDS Integers, Sequences, FiniteSets, TLC

\* ------------------------------------------------------------------ bounds
MaxChunks == 3      \* chunks llm.stream holds for one transcript
MaxPad == 1         \* whitespace around the submitted video_url

\* --------------------------------------------------------------- constants
TitleLimit == 50    \* title = title[:50]
MinTranscriptLen == 3

\* two requests in flight at once
Runs == {1, 2}
NoFile == "absent"  \* the name has no file
Leftover == "old"   \* a file written by a run interrupted before this process
None == "None"
NoAudio == <<>>     \* audio_file = None
NoBody == [none |-> TRUE]               \* get_json() gave nothing, or {}
NoResponse == [status |-> 0, error |-> None]

\* how the directory records that run r wrote a file
Writer(r) == "run" \o ToString(r)

WAV == <<"temp_audio", ".wav">>     \* audio_file = "temp_audio.wav"
WEBM == <<"temp_audio", ".webm">>   \* outtmpl 'temp_audio.%(ext)s' before extraction
DBFILE == <<"database", ".db">>     \* DB_PATH, in the same directory
Names == {WAV, WEBM, DBFILE}

\* file.startswith('temp_audio')
StartsWithTempAudio(f) == f[1] = "temp_audio"

\* ------------------------------------------------------------- pure helpers
RECURSIVE Join(_)
\* characters to a string
Join(s) == IF s = <<>> THEN "" ELSE s[1] \o Join(Tail(s))

IsSpace(c) == c \in {" ", "\t", "\n"}

RECURSIVE LStrip(_)
LStrip(s) == IF s # <<>> /\ IsSpace(s[1]) THEN LStrip(Tail(s)) ELSE s

RECURSIVE RStrip(_)
RStrip(s) ==
  IF s # <<>> /\ IsSpace(s[Len(s)]) THEN RStrip(SubSeq(s, 1, Len(s) - 1)) ELSE s

\* str.strip()
Strip(s) == RStrip(LStrip(s))

Spaces(n) == [i \in 1 .. n |-> " "]

\* the URL a client of run r submits when it submits one
UrlCore(r) == <<"u", ToString(r)>>

\* the values of data.get('video_url', '') the model draws from
UrlInputs(r) ==
  { Spaces(l) \o c \o Spaces(t) :
      l \in 0 .. MaxPad, t \in 0 .. MaxPad, c \in {<<>>, UrlCore(r)} }

IllegalTitleChars == {"<", ">", ":", "\"", "/", "\\", "|", "?", "*"}

\* re.sub(r'[<>:"/\\|?*]', '_', title) ; title[:50]
SanitizeTitle(t) ==
  LET sub == [i \in 1 .. Len(t) |-> IF t[i] \in IllegalTitleChars THEN "_" ELSE t[i]]
  IN  SubSeq(sub, 1, IF Len(sub) < TitleLimit THEN Len(sub) ELSE TitleLimit)

\* info['title'] values yt-dlp may report
RawTitles == { <<"T", "e", "s", "t", " ", "V", "i", "d", "e", "o">> }

NoSpeech == "No clear speech detected in the audio."

\* processor.decode(...): what the recognizer reads out of an audio file.
\* Decoding is deterministic (argmax under torch.no_grad), so the text is a
\* function of the audio, and the audio is that of the video its writer asked
\* for: speech in the first request's video, a too-short utterance in the
\* other's, nothing in a leftover file. The remaining clips are audio files
\* with no speech, noise read as whitespace, a two-letter and a three-letter
\* word.
DecodedOf(w) ==
  CASE w = Writer(1) ->
         <<" ", "h", "e", "l", "l", "o", " ", "w", "o", "r", "l", "d", " ">>
    [] w \in {Leftover, "silence"} -> <<>>
    [] w = "noise" -> <<" ", "\n", " ">>
    [] w = "two" -> <<"\t", "o", "k">>
    [] w = "three" -> <<" ", "a", "b", "c", "\n">>
    [] OTHER -> <<" ", "h", "i", " ">>

\* the audio files transcribe_audio is tried on
Clips == {Writer(1), Writer(2), "silence", "noise", "two", "three"}

\* variant: a transcript of exactly three characters counts as too short
TranscriptOf_OffByOne(decoded) ==
  LET t == Strip(decoded)
  IN  IF t = <<>> \/ Len(t) <= MinTranscriptLen THEN NoSpeech ELSE Join(t)

\* transcript.strip(); if not transcript or len(transcript) < 3: sentinel
TranscriptOf(decoded) ==
  LET t == Strip(decoded)
  IN  IF t = <<>> \/ Len(t) < MinTranscriptLen THEN NoSpeech ELSE Join(t)

\* what llm.stream yields, in order
StreamChunks == <<"Hello", " world", ".">>
ChunkAt(k) == StreamChunks[((k - 1) % Len(StreamChunks)) + 1]

\* what llm.invoke returns, cut where a character needs a JSON escape: two
\* paragraphs, the second with a quoted word
OneShotPieces ==
  <<"Overview", "\n", "\n", "A ", "\"", "one-shot", "\"", " summary.">>

OneShotSummary == Join(OneShotPieces)

\* a text cut into its plain stretches and the characters json.dumps escapes
Pieces(text) == IF text = OneShotSummary THEN OneShotPieces ELSE <<text>>

\* variant: strings are written into the frame as they are
EscapePiece_Raw(p) == p

\* json.dumps: the escape of one character of a string, plain text as it is
EscapePiece(p) ==
  CASE p = "\n" -> "\\n"
    [] p = "\t" -> "\\t"
    [] p = "\"" -> "\\\""
    [] p = "\\" -> "\\\\"
    [] OTHER -> p

\* json.loads: what an escape inside a string stands for
UnescapePiece(q) ==
  CASE q = "\\n" -> "\n"
    [] q = "\\t" -> "\t"
    [] q = "\\\"" -> "\""
    [] q = "\\\\" -> "\\"
    [] OTHER -> q

Quote == "\""

\* json.dumps of a string
JsonString(text) ==
  <<Quote>> \o [i \in 1 .. Len(Pieces(text)) |-> EscapePiece(Pieces(text)[i])]
           \o <<Quote>>

\* ------------------------------------------------------------------ events
StatusEv(m) == [type |-> "status", message |-> m]
TranscriptEv(t) == [type |-> "transcript", data |-> t]
ChunkEv(c) == [type |-> "summary_chunk", data |-> c]
CompleteEv(title) ==
  [type |-> "complete", video_title |-> title,
   message |-> "Processing completed successfully!"]
ErrorEv(m) == [type |-> "error", message |-> m]

\* the keys of an event's dict, in insertion order
Keys(ev) ==
  CASE ev.type \in {"status", "error"} -> <<"type", "message">>
    [] ev.type \in {"transcript", "summary_chunk"} -> <<"type", "data">>
    [] ev.type = "complete" -> <<"type", "video_title", "message">>

RECURSIVE Members(_, _)
\* json.dumps: "key": "value" joined by ", "
Members(ev, keys) ==
  JsonString(keys[1]) \o <<": ">> \o JsonString(ev[keys[1]])
  \o (IF Len(keys) = 1 THEN <<>> ELSE <<", ">> \o Members(ev, Tail(keys)))

\* json.dumps({...})
Dumps(ev) == <<"{">> \o Members(ev, Keys(ev)) \o <<"}">>

\* f"data: {json.dumps(ev)}\n\n"
Frame(ev) == <<"data: ">> \o Dumps(ev) \o <<"\n", "\n">>

RECURSIVE Written(_)
\* the bytes of the response body after the frames of evs were yielded
Written(evs) == IF evs = <<>> THEN <<>> ELSE Frame(evs[1]) \o Written(Tail(evs))

\* ------------------------------------------------------------------- state
VARIABLES
  pc,           \* where each request is
  data,         \* request.get_json(); dropped when the generator takes over
  response,     \* the HTTP response object the view returned
  video_url,    \* video_url after strip()
  events,       \* frames the generator has yielded, in order
  video_title,
  audio_file,   \* generate()'s local: None or the name download_audio returned
  heard,        \* who wrote the audio that transcribe_audio loaded
  transcript,
  summary,
  nchunks,      \* chunks taken from llm.stream so far
  todo,         \* names of the os.listdir loop still to visit
  calls,        \* collaborator calls issued by the request, in order
  failed,       \* the stages whose call raised
  cleanups,     \* times the finally block was entered
  swallowed,    \* the cleanup steps whose exception a bare except passed over
  closed,       \* the client disconnected and the server closed the generator
  disk,         \* working directory: name -> who wrote the file
  video_jobs    \* rows committed to video_jobs, by the request that wrote them

vars == <<pc, data, response, video_url, events, video_title, audio_file,
          heard, transcript, summary, nchunks, todo, calls, failed, cleanups,
          swallowed, closed, disk, video_jobs>>

\* everything of one request that a step may leave alone, but pc and events
local == <<data, response, video_url, video_title, audio_file, heard,
           transcript, summary, nchunks, todo, calls, failed, cleanups, swallowed,
           closed>>

Init ==
  /\ pc = [r \in Runs |-> "idle"]
  /\ data = [r \in Runs |-> NoBody]
  /\ response = [r \in Runs |-> NoResponse]
  /\ video_url = [r \in Runs |-> ""]
  /\ events = [r \in Runs |-> <<>>]
  /\ video_title = [r \in Runs |-> None]
  /\ audio_file = [r \in Runs |-> NoAudio]
  /\ heard = [r \in Runs |-> None]
  /\ transcript = [r \in Runs |-> None]
  /\ summary = [r \in Runs |-> ""]
  /\ nchunks = [r \in Runs |-> 0]
  /\ todo = [r \in Runs |-> {}]
  /\ calls = [r \in Runs |-> <<>>]
  /\ failed = [r \in Runs |-> {}]
  /\ cleanups = [r \in Runs |-> 0]
  /\ swallowed = [r \in Runs |-> {}]
  /\ closed = [r \in Runs |-> FALSE]
  /\ \E w \in {NoFile, Leftover} :
        disk = [f \in Names |-> IF StartsWithTempAudio(f) THEN w ELSE "db"]
  /\ video_jobs = [r \in Runs |-> <<>>]

\* yield f"data: {json.dumps(ev)}\n\n" and suspend at p
Yield(r, ev, p) ==
  /\ events' = [events EXCEPT ![r] = Append(@, ev)]
  /\ pc' = [pc EXCEPT ![r] = p]

\* variant: the except clause swallows the exception and yields nothing
Raise_Silent(r, msg) ==
  /\ pc' = [pc EXCEPT ![r] = "y_error"]
  /\ UNCHANGED events

\* except Exception as e: yield error(str(e))
Raise(r, msg) == Yield(r, ErrorEv(msg), "y_error")

\* the request issues collaborator call c, which returns
Call(r, c) ==
  /\ calls' = [calls EXCEPT ![r] = Append(@, c)]
  /\ UNCHANGED failed

\* the request issues collaborator call c, which raises
CallFails(r, c) ==
  /\ calls' = [calls EXCEPT ![r] = Append(@, c)]
  /\ failed' = [failed EXCEPT ![r] = @ \cup {c}]

\* the request bodies the model draws from
Bodies(r) == {NoBody} \cup { [video_url |-> u] : u \in UrlInputs(r) }

\* a request arrives: data = request.get_json()
Receive(r) ==
  /\ pc[r] = "idle"
  /\ \E b \in Bodies(r) : data' = [data EXCEPT ![r] = b]
  /\ pc' = [pc EXCEPT ![r] = "view"]
  /\ UNCHANGED <<response, video_url, events, video_title, audio_file, heard,
                 transcript, summary, nchunks, todo, calls, failed, cleanups,
                 closed, disk, video_jobs, swallowed>>

\* variant: the URL is tested before it is stripped
UrlMissing_Unstripped(u) == u = <<>>

\* if not video_url
UrlMissing(u) == Strip(u) = <<>>

\* process_video_stream from `if not data` to its return
Validate(r) ==
  /\ pc[r] = "view"
  /\ IF data[r] = NoBody
     THEN /\ response' = [response EXCEPT ![r] = [status |-> 400, error |-> "No JSON data provided"]]
          /\ pc' = [pc EXCEPT ![r] = "rejected"]
          /\ UNCHANGED video_url
     ELSE /\ video_url' = [video_url EXCEPT ![r] = Join(Strip(data[r].video_url))]
          /\ IF UrlMissing(data[r].video_url)
             THEN /\ response' = [response EXCEPT ![r] = [status |-> 400, error |-> "Video URL is required"]]
                  /\ pc' = [pc EXCEPT ![r] = "rejected"]
             ELSE /\ response' = [response EXCEPT ![r] = [status |-> 200, error |-> None]]
                  /\ pc' = [pc EXCEPT ![r] = "gen_start"]
  /\ data' = [data EXCEPT ![r] =
       IF data[r] # NoBody /\ ~UrlMissing(data[r].video_url) THEN NoBody ELSE @]
  /\ UNCHANGED <<events, video_title, audio_file, heard, transcript, summary,
                 nchunks, todo, calls, failed, cleanups, closed, disk, video_jobs, swallowed>>

\* first next(): yield status 'Starting video processing...'
Starting(r) ==
  /\ pc[r] = "gen_start"
  /\ Yield(r, StatusEv("Starting video processing..."), "y_starting")
  /\ UNCHANGED <<local, disk, video_jobs>>

\* converter = SimpleVideoToText(); yield status 'Getting video information...'
Construct(r) ==
  /\ pc[r] = "y_starting"
  /\ \/ /\ Yield(r, StatusEv("Getting video information..."), "y_getting")
        /\ UNCHANGED failed
     \/ /\ Raise(r, "ffmpeg or ffprobe not found in 'ffmpeg/bin'. Please install FFmpeg correctly.")
        /\ failed' = [failed EXCEPT ![r] = @ \cup {"init"}]
  /\ UNCHANGED <<data, response, video_url, video_title, audio_file, heard,
                 transcript, summary, nchunks, todo, calls, cleanups, closed,
                 disk, video_jobs, swallowed>>

\* variant: get_video_info lets the extraction error propagate
GetInfo_Fatal(r) ==
  /\ pc[r] = "y_getting"
  /\ \/ \E t \in RawTitles :
          /\ Call(r, "metadata")
          /\ video_title' = [video_title EXCEPT ![r] = Join(SanitizeTitle(t))]
          /\ Yield(r, StatusEv("Found video: " \o Join(SanitizeTitle(t))), "y_found")
     \/ /\ CallFails(r, "metadata")
        /\ Raise(r, "Could not extract video info")
        /\ UNCHANGED video_title
  /\ UNCHANGED <<data, response, video_url, audio_file, heard, transcript,
                 summary, nchunks, todo, cleanups, closed, disk, video_jobs, swallowed>>

\* video_title, video_id = converter.get_video_info(video_url); yield 'Found video: ...'
GetInfo(r) ==
  /\ pc[r] = "y_getting"
  /\ \/ \E t \in RawTitles :
          /\ Call(r, "metadata")
          /\ video_title' = [video_title EXCEPT ![r] = Join(SanitizeTitle(t))]
          /\ Yield(r, StatusEv("Found video: " \o Join(SanitizeTitle(t))), "y_found")
     \/ /\ CallFails(r, "metadata")
        /\ video_title' = [video_title EXCEPT ![r] = "Unknown_Video"]
        /\ Yield(r, StatusEv("Found video: " \o "Unknown_Video"), "y_found")
  /\ UNCHANGED <<data, response, video_url, audio_file, heard, transcript,
                 summary, nchunks, todo, cleanups, closed, disk, video_jobs, swallowed>>

\* variant: the download starts without its status event
Downloading_Silent(r) ==
  /\ pc[r] = "y_found"
  /\ pc' = [pc EXCEPT ![r] = "y_downloading"]
  /\ UNCHANGED <<events, local, disk, video_jobs>>

\* yield status 'Downloading audio...'
Downloading(r) ==
  /\ pc[r] = "y_found"
  /\ Yield(r, StatusEv("Downloading audio..."), "y_downloading")
  /\ UNCHANGED <<local, disk, video_jobs>>

\* os.listdir('.')
Listing == { f \in Names : disk[f] # NoFile }

\* the names of a listing on which the loop body does anything:
\* if file.startswith('temp_audio')
SweepList == { f \in Listing : StartsWithTempAudio(f) }

\* download_audio: for file in os.listdir('.')
DlListdir(r) ==
  /\ pc[r] = "y_downloading"
  /\ todo' = [todo EXCEPT ![r] = SweepList]
  /\ pc' = [pc EXCEPT ![r] = IF SweepList = {} THEN "dl_fetch" ELSE "dl_sweep"]
  /\ UNCHANGED <<data, response, video_url, events, video_title, audio_file,
                 heard, transcript, summary, nchunks, calls, failed, cleanups,
                 closed, disk, video_jobs, swallowed>>

\* download_audio: one pass of the loop body; a failing os.remove is passed over
DlSweep(r) ==
  /\ pc[r] = "dl_sweep"
  /\ \E f \in todo[r] :
       /\ todo' = [todo EXCEPT ![r] = @ \ {f}]
       /\ disk' = [disk EXCEPT ![f] = NoFile]
       /\ pc' = [pc EXCEPT ![r] = IF todo[r] = {f} THEN "dl_fetch" ELSE "dl_sweep"]
  /\ UNCHANGED <<data, response, video_url, events, video_title, audio_file,
                 heard, transcript, summary, nchunks, calls, failed, cleanups,
                 closed, video_jobs, swallowed>>

\* download_audio: ydl.download([video_url]) with the FFmpegExtractAudio postprocessor
DlFetch(r) ==
  /\ pc[r] = "dl_fetch"
  /\ \/ /\ Call(r, "download")
        /\ disk' = [disk EXCEPT ![WAV] = Writer(r), ![WEBM] = NoFile]
        /\ pc' = [pc EXCEPT ![r] = "dl_exists"]
        /\ UNCHANGED events
     \/ /\ CallFails(r, "download")
        /\ \/ UNCHANGED disk
           \/ disk' = [disk EXCEPT ![WEBM] = Writer(r)]
        /\ Raise(r, "Audio download failed: unavailable")
  /\ UNCHANGED <<data, response, video_url, video_title, audio_file, heard,
                 transcript, summary, nchunks, todo, cleanups, closed, video_jobs, swallowed>>

\* download_audio: if not os.path.exists(audio_file): raise
DlExists(r) ==
  /\ pc[r] = "dl_exists"
  /\ IF disk[WAV] = NoFile
     THEN /\ Raise(r, "Audio file download or conversion failed")
          /\ failed' = [failed EXCEPT ![r] = @ \cup {"download"}]
     ELSE /\ pc' = [pc EXCEPT ![r] = "dl_getsize"]
          /\ UNCHANGED <<events, failed>>
  /\ UNCHANGED <<data, response, video_url, video_title, audio_file, heard,
                 transcript, summary, nchunks, todo, calls, cleanups, closed,
                 disk, video_jobs, swallowed>>

\* download_audio: os.path.getsize(audio_file); return audio_file;
\* generate: audio_file = ...; yield status 'Transcribing audio to text...'
DlReturn(r) ==
  /\ pc[r] = "dl_getsize"
  /\ IF disk[WAV] = NoFile
     THEN /\ Raise(r, "[Errno 2] No such file or directory: 'temp_audio.wav'")
          /\ failed' = [failed EXCEPT ![r] = @ \cup {"download"}]
          /\ UNCHANGED audio_file
     ELSE /\ audio_file' = [audio_file EXCEPT ![r] = WAV]
          /\ Yield(r, StatusEv("Transcribing audio to text..."), "y_transcribing")
          /\ UNCHANGED failed
  /\ UNCHANGED <<data, response, video_url, video_title, heard, transcript,
                 summary, nchunks, todo, calls, cleanups, closed, disk, video_jobs, swallowed>>

\* variant: the transcription error is reported and the pipeline goes on
Transcribe_GoesOn(r) ==
  /\ pc[r] = "y_transcribing"
  /\ \/ /\ disk[audio_file[r]] # NoFile
        /\ Call(r, "transcribe")
        /\ heard' = [heard EXCEPT ![r] = disk[audio_file[r]]]
        /\ transcript' = [transcript EXCEPT ![r] = TranscriptOf(DecodedOf(disk[audio_file[r]]))]
        /\ Yield(r, TranscriptEv(TranscriptOf(DecodedOf(disk[audio_file[r]]))), "y_transcript")
     \/ /\ CallFails(r, "transcribe")
        /\ Yield(r, ErrorEv("Transcription failed: Could not load temp_audio.wav. Please install: pip install soundfile scipy"), "y_transcript")
        /\ UNCHANGED <<heard, transcript>>
  /\ UNCHANGED <<data, response, video_url, video_title, audio_file, summary,
                 nchunks, todo, cleanups, closed, disk, video_jobs, swallowed>>

\* transcript = converter.transcribe_audio(audio_file); yield transcript
Transcribe(r) ==
  /\ pc[r] = "y_transcribing"
  /\ \/ /\ disk[audio_file[r]] # NoFile
        /\ Call(r, "transcribe")
        /\ heard' = [heard EXCEPT ![r] = disk[audio_file[r]]]
        /\ transcript' = [transcript EXCEPT ![r] = TranscriptOf(DecodedOf(disk[audio_file[r]]))]
        /\ Yield(r, TranscriptEv(TranscriptOf(DecodedOf(disk[audio_file[r]]))), "y_transcript")
     \/ /\ CallFails(r, "transcribe")
        /\ Raise(r, "Transcription failed: Could not load temp_audio.wav. Please install: pip install soundfile scipy")
        /\ UNCHANGED <<heard, transcript>>
  /\ UNCHANGED <<data, response, video_url, video_title, audio_file, summary,
                 nchunks, todo, cleanups, closed, disk, video_jobs, swallowed>>

\* yield status 'Generating AI summary... (Live typing)'
Generating(r) ==
  /\ pc[r] = "y_transcript"
  /\ Yield(r, StatusEv("Generating AI summary... (Live typing)"), "y_generating")
  /\ UNCHANGED <<local, disk, video_jobs>>

\* summary += chunk
\* variant: each chunk is put in front of the text gathered so far
Accumulate_Prepends(s, chunk) == chunk \o s

Accumulate(s, chunk) == s \o chunk

\* converter.llm.stream(prompt) is called once, when the for loop starts
StreamCall(r) ==
  calls' = [calls EXCEPT ![r] = IF pc[r] = "y_generating" THEN Append(@, "stream") ELSE @]

\* variant: a chunk is sent to the client but not added to the summary
StreamChunk_NotKept(r) ==
  /\ pc[r] \in {"y_generating", "y_chunk"}
  /\ nchunks[r] < MaxChunks
  /\ StreamCall(r)
  /\ nchunks' = [nchunks EXCEPT ![r] = @ + 1]
  /\ Yield(r, ChunkEv(ChunkAt(nchunks[r] + 1)), "y_chunk")
  /\ UNCHANGED <<data, response, video_url, video_title, audio_file, heard,
                 transcript, summary, todo, failed, cleanups, closed, disk,
                 video_jobs, swallowed>>

\* for chunk in converter.llm.stream(prompt): summary += chunk; yield summary_chunk
StreamChunk(r) ==
  /\ pc[r] \in {"y_generating", "y_chunk"}
  /\ nchunks[r] < MaxChunks
  /\ StreamCall(r)
  /\ nchunks' = [nchunks EXCEPT ![r] = @ + 1]
  /\ summary' = [summary EXCEPT ![r] = Accumulate(@, ChunkAt(nchunks[r] + 1))]
  /\ Yield(r, ChunkEv(ChunkAt(nchunks[r] + 1)), "y_chunk")
  /\ UNCHANGED <<data, response, video_url, video_title, audio_file, heard,
                 transcript, todo, failed, cleanups, closed, disk, video_jobs, swallowed>>

\* variant: the first failure of llm.stream starts the stream over
StreamRaise_Retries(r) ==
  /\ pc[r] \in {"y_generating", "y_chunk"}
  /\ StreamCall(r)
  /\ failed' = [failed EXCEPT ![r] = @ \cup {"stream"}]
  /\ IF "stream" \in failed[r]
     THEN Yield(r, StatusEv("Streaming failed, generating complete summary..."), "y_fallback")
     ELSE pc' = [pc EXCEPT ![r] = "y_generating"] /\ UNCHANGED events
  /\ UNCHANGED <<data, response, video_url, video_title, audio_file, heard,
                 transcript, summary, nchunks, todo, cleanups, closed, disk,
                 video_jobs, swallowed>>

\* llm.stream raises: yield status 'Streaming failed, generating complete summary...'
StreamRaise(r) ==
  /\ pc[r] \in {"y_generating", "y_chunk"}
  /\ StreamCall(r)
  /\ failed' = [failed EXCEPT ![r] = @ \cup {"stream"}]
  /\ Yield(r, StatusEv("Streaming failed, generating complete summary..."), "y_fallback")
  /\ UNCHANGED <<data, response, video_url, video_title, audio_file, heard,
                 transcript, summary, nchunks, todo, cleanups, closed, disk,
                 video_jobs, swallowed>>

\* llm.stream is exhausted: yield status 'Saving to database...'
StreamEnd(r) ==
  /\ pc[r] \in {"y_generating", "y_chunk"}
  /\ nchunks[r] = MaxChunks
  /\ StreamCall(r)
  /\ Yield(r, StatusEv("Saving to database..."), "y_saving")
  /\ UNCHANGED <<data, response, video_url, video_title, audio_file, heard,
                 transcript, summary, nchunks, todo, failed, cleanups, closed,
                 disk, video_jobs, swallowed>>

\* variant: the fallback result is sent but not assigned to summary
Fallback_KeepsPartial(r) ==
  /\ pc[r] = "y_fallback"
  /\ \/ /\ Call(r, "invoke")
        /\ Yield(r, ChunkEv(OneShotSummary), "y_fbchunk")
     \/ /\ CallFails(r, "invoke")
        /\ Raise(r, "llm.invoke failed: connection refused")
  /\ UNCHANGED <<data, response, video_url, video_title, audio_file, heard,
                 transcript, summary, nchunks, todo, cleanups, closed, disk,
                 video_jobs, swallowed>>

\* summary = converter.generate_summary(transcript); yield summary_chunk(summary)
Fallback(r) ==
  /\ pc[r] = "y_fallback"
  /\ \/ /\ Call(r, "invoke")
        /\ summary' = [summary EXCEPT ![r] = OneShotSummary]
        /\ Yield(r, ChunkEv(OneShotSummary), "y_fbchunk")
     \/ /\ CallFails(r, "invoke")
        /\ Raise(r, "llm.invoke failed: connection refused")
        /\ UNCHANGED summary
  /\ UNCHANGED <<data, response, video_url, video_title, audio_file, heard,
                 transcript, nchunks, todo, cleanups, closed, disk, video_jobs, swallowed>>

\* after the fallback chunk: yield status 'Saving to database...'
Saving(r) ==
  /\ pc[r] = "y_fbchunk"
  /\ Yield(r, StatusEv("Saving to database..."), "y_saving")
  /\ UNCHANGED <<local, disk, video_jobs>>

\* the row of INSERT INTO video_jobs
JobRow(r) ==
  [user_id |-> r, video_url |-> video_url[r], video_title |-> video_title[r],
   transcript |-> transcript[r], summary |-> summary[r]]

\* variant: the row stays committed when the write is reported as failed
Save_NoRollback(r) ==
  /\ pc[r] = "y_saving"
  /\ video_jobs' = [video_jobs EXCEPT ![r] = Append(@, JobRow(r))]
  /\ \/ /\ Call(r, "db")
        /\ Yield(r, CompleteEv(video_title[r]), "y_complete")
     \/ /\ CallFails(r, "db")
        /\ Raise(r, "database is locked")
  /\ UNCHANGED <<data, response, video_url, video_title, audio_file, heard,
                 transcript, summary, nchunks, todo, cleanups, closed, disk, swallowed>>

\* with get_db_connection(): INSERT; conn.commit(); yield complete
Save(r) ==
  /\ pc[r] = "y_saving"
  /\ \/ /\ Call(r, "db")
        /\ video_jobs' = [video_jobs EXCEPT ![r] = Append(@, JobRow(r))]
        /\ Yield(r, CompleteEv(video_title[r]), "y_complete")
     \/ /\ CallFails(r, "db")
        /\ Raise(r, "database is locked")
        /\ UNCHANGED video_jobs
  /\ UNCHANGED <<data, response, video_url, video_title, audio_file, heard,
                 transcript, summary, nchunks, todo, cleanups, closed, disk, swallowed>>

\* the generator is suspended at a yield
Suspended ==
  {"y_starting", "y_getting", "y_found", "y_downloading", "y_transcribing",
   "y_transcript", "y_generating", "y_chunk", "y_fallback", "y_fbchunk",
   "y_saving", "y_complete", "y_error"}

\* the yields after which the try block has nothing left to run
TerminalYields == {"y_complete", "y_error"}

\* variant: the finally block is empty
EnterFinally_Empty(r) ==
  /\ cleanups' = [cleanups EXCEPT ![r] = @ + 1]
  /\ pc' = [pc EXCEPT ![r] = "done"]

\* finally: if audio_file and os.path.exists(audio_file)
EnterFinally(r) ==
  /\ cleanups' = [cleanups EXCEPT ![r] = @ + 1]
  /\ pc' = [pc EXCEPT ![r] =
       IF audio_file[r] # NoAudio /\ disk[audio_file[r]] # NoFile
       THEN "cl_remove" ELSE "cl_listdir"]

\* variant: the cleanup follows the try block instead of being its finally
\* clause, so only a run that reached `complete` gets to it
Finish_CleanupAfterTry(r) ==
  /\ pc[r] \in TerminalYields
  /\ IF pc[r] = "y_complete"
     THEN EnterFinally(r)
     ELSE /\ pc' = [pc EXCEPT ![r] = "done"]
          /\ UNCHANGED cleanups
  /\ UNCHANGED <<data, response, video_url, events, video_title, audio_file,
                 heard, transcript, summary, nchunks, todo, calls, failed,
                 closed, disk, video_jobs, swallowed>>

\* the consumer asks for the next frame after the terminal one
Finish(r) ==
  /\ pc[r] \in TerminalYields
  /\ EnterFinally(r)
  /\ UNCHANGED <<data, response, video_url, events, video_title, audio_file,
                 heard, transcript, summary, nchunks, todo, calls, failed,
                 closed, disk, video_jobs, swallowed>>

\* variant: the cleanup sits in an `except Exception`, which GeneratorExit passes
Disconnect_NoCleanup(r) ==
  /\ pc[r] \in Suspended
  /\ closed' = [closed EXCEPT ![r] = TRUE]
  /\ pc' = [pc EXCEPT ![r] = "done"]
  /\ UNCHANGED <<data, response, video_url, events, video_title, audio_file,
                 heard, transcript, summary, nchunks, todo, calls, failed,
                 cleanups, disk, video_jobs, swallowed>>

\* the client goes away: the server calls close(), GeneratorExit at the yield
Disconnect(r) ==
  /\ pc[r] \in Suspended
  /\ closed' = [closed EXCEPT ![r] = TRUE]
  /\ EnterFinally(r)
  /\ UNCHANGED <<data, response, video_url, events, video_title, audio_file,
                 heard, transcript, summary, nchunks, todo, calls, failed,
                 disk, video_jobs, swallowed>>

\* finally: try: os.remove(audio_file) except: pass
ClRemove(r) ==
  /\ pc[r] = "cl_remove"
  /\ disk' = [disk EXCEPT ![audio_file[r]] = NoFile]
  /\ swallowed' = [swallowed EXCEPT ![r] =
       IF disk[audio_file[r]] = NoFile THEN @ \cup {"remove"} ELSE @]
  /\ pc' = [pc EXCEPT ![r] = "cl_listdir"]
  /\ UNCHANGED <<data, response, video_url, events, video_title, audio_file,
                 heard, transcript, summary, nchunks, todo, calls, failed,
                 cleanups, closed, video_jobs>>

\* finally: for file in os.listdir('.')
ClListdir(r) ==
  /\ pc[r] = "cl_listdir"
  /\ todo' = [todo EXCEPT ![r] = SweepList]
  /\ pc' = [pc EXCEPT ![r] = IF SweepList = {} THEN "done" ELSE "cl_sweep"]
  /\ UNCHANGED <<data, response, video_url, events, video_title, audio_file,
                 heard, transcript, summary, nchunks, calls, failed, cleanups,
                 closed, disk, video_jobs, swallowed>>

\* finally: one pass of the loop body; a failing os.remove ends the whole loop
\* variant: a failing os.remove of the sweep is reported as an error event
ClSweep_Reports(r) ==
  /\ pc[r] = "cl_sweep"
  /\ \E f \in todo[r] :
       IF disk[f] = NoFile
       THEN /\ todo' = [todo EXCEPT ![r] = {}]
            /\ swallowed' = [swallowed EXCEPT ![r] = @ \cup {"sweep"}]
            /\ events' = [events EXCEPT ![r] = Append(@, ErrorEv("No such file or directory"))]
            /\ pc' = [pc EXCEPT ![r] = "done"]
            /\ UNCHANGED disk
       ELSE /\ todo' = [todo EXCEPT ![r] = @ \ {f}]
            /\ disk' = [disk EXCEPT ![f] = NoFile]
            /\ pc' = [pc EXCEPT ![r] = IF todo[r] = {f} THEN "done" ELSE "cl_sweep"]
            /\ UNCHANGED <<swallowed, events>>
  /\ UNCHANGED <<data, response, video_url, video_title, audio_file,
                 heard, transcript, summary, nchunks, calls, failed, cleanups,
                 closed, video_jobs>>

ClSweep(r) ==
  /\ pc[r] = "cl_sweep"
  /\ \E f \in todo[r] :
       IF disk[f] = NoFile
       THEN /\ todo' = [todo EXCEPT ![r] = {}]
            /\ swallowed' = [swallowed EXCEPT ![r] = @ \cup {"sweep"}]
            /\ pc' = [pc EXCEPT ![r] = "done"]
            /\ UNCHANGED disk
       ELSE /\ todo' = [todo EXCEPT ![r] = @ \ {f}]
            /\ disk' = [disk EXCEPT ![f] = NoFile]
            /\ pc' = [pc EXCEPT ![r] = IF todo[r] = {f} THEN "done" ELSE "cl_sweep"]
            /\ UNCHANGED swallowed
  /\ UNCHANGED <<data, response, video_url, events, video_title, audio_file,
                 heard, transcript, summary, nchunks, calls, failed, cleanups,
                 closed, video_jobs>>

Next ==
  \/ \E r \in Runs : Receive(r)
  \/ \E r \in Runs : Validate(r)
  \/ \E r \in Runs : Starting(r)
  \/ \E r \in Runs : Construct(r)
  \/ \E r \in Runs : GetInfo(r)
  \/ \E r \in Runs : Downloading(r)
  \/ \E r \in Runs : DlListdir(r)
  \/ \E r \in Runs : DlSweep(r)
  \/ \E r \in Runs : DlFetch(r)
  \/ \E r \in Runs : DlExists(r)
  \/ \E r \in Runs : DlReturn(r)
  \/ \E r \in Runs : Transcribe(r)
  \/ \E r \in Runs : Generating(r)
  \/ \E r \in Runs : StreamChunk(r)
  \/ \E r \in Runs : StreamRaise(r)
  \/ \E r \in Runs : StreamEnd(r)
  \/ \E r \in Runs : Fallback(r)
  \/ \E r \in Runs : Saving(r)
  \/ \E r \in Runs : Save(r)
  \/ \E r \in Runs : Finish(r)
  \/ \E r \in Runs : Disconnect(r)
  \/ \E r \in Runs : ClRemove(r)
  \/ \E r \in Runs : ClListdir(r)
  \/ \E r \in Runs : ClSweep(r)

Spec == Init /\ [][Next]_vars

\* ------------------------------------------------------- reading the state
\* positions of the events of one type
EventsOf(r, t) == { i \in DOMAIN events[r] : events[r][i].type = t }

Terminals(r) == EventsOf(r, "complete") \cup EventsOf(r, "error")

CleanupPcs == {"cl_remove", "cl_listdir", "cl_sweep"}

\* the generator has left its try block
LeftTry(r) == pc[r] \in CleanupPcs \cup {"done"}

\* generate() is running or has run
Streaming(r) == pc[r] \notin {"idle", "view", "rejected"}

\* r holds an audio file it downloaded and has not begun its cleanup
InFlight(r) ==
  \/ pc[r] \in {"dl_exists", "dl_getsize"}
  \/ audio_file[r] = WAV /\ pc[r] \in Suspended

\* ------------------------------------------------------------------ claims

\* C1: in every run of generate() the events hold at most one terminal event
\* (complete or error, never both), nothing is emitted after it, and a run
\* that the client did not abort has exactly one once it leaves the try block.
C1_OneTerminalEvent ==
  \A r \in Runs :
    /\ Cardinality(Terminals(r)) <= 1
    /\ \A i \in Terminals(r) : i = Len(events[r])
    /\ (LeftTry(r) /\ ~closed[r]) => Cardinality(Terminals(r)) = 1

\* one run ended with complete, the other with error after a failed stage
C1_Witness ==
  \E r1 \in Runs, r2 \in Runs :
    /\ pc[r1] = "done" /\ ~closed[r1] /\ EventsOf(r1, "complete") # {}
    /\ pc[r2] = "done" /\ ~closed[r2] /\ EventsOf(r2, "error") # {}
    /\ "transcribe" \in failed[r2]

\* C2: the cleanup block is entered exactly once on every exit path of a run,
\* never twice and never not at all; after it the audio file the run
\* downloaded is gone, and the run ends only through the temp_audio sweep.
C2_CleanupExactlyOnce ==
  /\ [](\A r \in Runs :
          /\ cleanups[r] <= 1
          /\ LeftTry(r) <=> cleanups[r] = 1
          /\ pc[r] = "done" => disk[WAV] # Writer(r))
  /\ [][\A r \in Runs :
          (pc[r] # "done" /\ pc'[r] = "done") => pc[r] \in {"cl_listdir", "cl_sweep"}]_vars

\* a run whose transcription failed after its download ended, cleaned up once
C2_Witness ==
  \E r \in Runs :
    /\ pc[r] = "done" /\ cleanups[r] = 1 /\ ~closed[r]
    /\ audio_file[r] = WAV /\ "transcribe" \in failed[r]

\* C3: while a run holds the audio file it downloaded and has not begun its
\* cleanup, no step of another run removes that file.
C3_NoCrossRunDeletion ==
  [][\A r \in Runs :
       (InFlight(r) /\ InFlight(r)' /\ disk[WAV] = Writer(r)) => disk'[WAV] # NoFile]_vars

\* C4 as stated: an empty or whitespace-only video_url yields exactly one
\* error event on the event stream, and no collaborator call.
C4_ErrorEventForEmptyUrl ==
  \A r \in Runs :
    (pc[r] = "rejected" /\ data[r] # NoBody)
      => Cardinality(EventsOf(r, "error")) = 1 /\ calls[r] = <<>>

\* C4 amended: an empty or whitespace-only video_url is answered with the
\* HTTP 400 JSON error 'Video URL is required'; no generator is created, so
\* no event is emitted and no collaborator is called; a request that does
\* stream has a non-empty stripped URL.
C4_EmptyUrlRejected ==
  \A r \in Runs :
    /\ (pc[r] = "rejected" /\ data[r] # NoBody) =>
         /\ Strip(data[r].video_url) = <<>>
         /\ response[r] = [status |-> 400, error |-> "Video URL is required"]
         /\ events[r] = <<>> /\ calls[r] = <<>> /\ cleanups[r] = 0
    /\ pc[r] = "rejected" <=> response[r].status = 400
    /\ Streaming(r) => video_url[r] # "" /\ response[r].status = 200

\* a whitespace-only URL was submitted and rejected
C4_Witness ==
  \E r \in Runs :
    /\ pc[r] = "rejected" /\ data[r] # NoBody
    /\ Len(data[r].video_url) > 0

\* C5: a run commits at most one video_jobs row, it has committed one exactly
\* when it has emitted complete, and a run that emitted error committed none.
C5_SavedIffComplete ==
  \A r \in Runs :
    /\ Len(video_jobs[r]) <= 1
    /\ Len(video_jobs[r]) = 1 <=> EventsOf(r, "complete") # {}
    /\ EventsOf(r, "error") # {} => video_jobs[r] = <<>>

\* one run saved and completed, the other failed at the database write
C5_Witness ==
  \E r1 \in Runs, r2 \in Runs :
    /\ pc[r1] = "done" /\ Len(video_jobs[r1]) = 1
    /\ pc[r2] = "done" /\ "db" \in failed[r2] /\ video_jobs[r2] = <<>>

\* how often stage c was called
CallCount(r, c) == Cardinality({ i \in DOMAIN calls[r] : calls[r][i] = c })

\* C6: a run that reached complete called the download exactly once, which
\* gave it one audio file, and once the run has ended no file written by its
\* download is left in the directory.
C6_CompleteLeavesNoAudio ==
  \A r \in Runs :
    EventsOf(r, "complete") # {} =>
      /\ CallCount(r, "download") = 1
      /\ "download" \notin failed[r]
      /\ audio_file[r] = WAV
      /\ pc[r] = "done" => \A f \in Names : disk[f] # Writer(r)

\* a run completed while its own audio file was still there, and ended
C6_Witness ==
  \E r \in Runs :
    /\ pc[r] = "done" /\ ~closed[r]
    /\ EventsOf(r, "complete") # {}
    /\ heard[r] = Writer(r)

\* C7: once the client has disconnected the run calls no collaborator, emits
\* nothing and writes no row; the cleanup block has run for it, and when the
\* run has ended the audio file it downloaded is gone.
C7_DisconnectStopsAndCleans ==
  /\ [](\A r \in Runs :
          closed[r] =>
            /\ cleanups[r] = 1
            /\ LeftTry(r)
            /\ pc[r] = "done" => disk[WAV] # Writer(r))
  /\ [][\A r \in Runs :
          closed[r] =>
            /\ calls'[r] = calls[r]
            /\ events'[r] = events[r]
            /\ video_jobs'[r] = video_jobs[r]]_vars

\* the client left after the download, before any terminal event; the run ended
C7_Witness ==
  \E r \in Runs :
    /\ closed[r] /\ pc[r] = "done"
    /\ audio_file[r] = WAV
    /\ Terminals(r) = {}

FallbackStatus == StatusEv("Streaming failed, generating complete summary...")

\* where the fallback status sits in the events
FallbackAt(r) == { i \in DOMAIN events[r] : events[r][i] = FallbackStatus }

\* C8 as stated: when llm.stream raises, the run emits no error; it emits the
\* fallback status, then exactly one summary_chunk with the one-shot result,
\* and saves the job once with that summary.
C8_FallbackNeverErrors ==
  \A r \in Runs :
    ("stream" \in failed[r] /\ pc[r] = "done" /\ ~closed[r]) =>
      /\ EventsOf(r, "error") = {}
      /\ \E i \in FallbackAt(r) :
           /\ Len(events[r]) > i
           /\ events[r][i + 1] = ChunkEv(OneShotSummary)
           /\ \A j \in EventsOf(r, "summary_chunk") : j > i => j = i + 1
      /\ Len(video_jobs[r]) = 1
      /\ video_jobs[r][1].summary = OneShotSummary

\* C8 amended: when llm.stream raises, on its first chunk or later, the
\* failure itself gives no error event: the run emits the fallback status and
\* calls the one-shot summarizer. If that call returns, exactly one further
\* summary_chunk follows, carrying the one-shot result, which is the summary
\* of the one row a completing run saves; no row is saved twice. An error
\* event appears only when the one-shot call or the database write fails.
C8_FallbackToOneShot ==
  \A r \in Runs :
    /\ "stream" \in failed[r] <=> FallbackAt(r) # {}
    /\ \A i \in FallbackAt(r) :
         /\ \A j \in 1 .. i : events[r][j].type # "error"
         /\ Len(events[r]) > i =>
              IF "invoke" \in failed[r]
              THEN events[r][i + 1].type = "error" /\ Len(events[r]) = i + 1
              ELSE events[r][i + 1] = ChunkEv(OneShotSummary) /\ summary[r] = OneShotSummary
         /\ \A j \in EventsOf(r, "summary_chunk") : j > i => j = i + 1
         /\ Len(video_jobs[r]) <= 1
         /\ \A k \in DOMAIN video_jobs[r] : video_jobs[r][k].summary = OneShotSummary
         /\ EventsOf(r, "complete") # {} => Len(video_jobs[r]) = 1
         /\ EventsOf(r, "error") # {} => failed[r] \cap {"invoke", "db"} # {}

\* the stream raised on the first chunk in one run and after a chunk in the
\* other, and both runs completed
C8_Witness ==
  \E r1 \in Runs, r2 \in Runs :
    /\ "stream" \in failed[r1] /\ nchunks[r1] = 0 /\ EventsOf(r1, "complete") # {}
    /\ "stream" \in failed[r2] /\ nchunks[r2] > 0 /\ EventsOf(r2, "complete") # {}

\* the cause strings a failing stage may raise with
CauseOf(stage) ==
  IF stage = "download"
  THEN {"Audio download failed: unavailable",
        "Audio file download or conversion failed",
        "[Errno 2] No such file or directory: 'temp_audio.wav'"}
  ELSE IF stage = "transcribe"
  THEN {"Transcription failed: Could not load temp_audio.wav. Please install: pip install soundfile scipy"}
  ELSE {"database is locked"}

\* C9: a failed download, transcription or database write shows as exactly
\* one error event, the last event of the run, carrying the cause; the failed
\* stage is the last one the run called, no row is saved and no complete
\* event is emitted.
C9_FatalFailureStopsRun ==
  \A r \in Runs :
    \A s \in failed[r] \cap {"download", "transcribe", "db"} :
      /\ Cardinality(EventsOf(r, "error")) = 1
      /\ events[r][Len(events[r])].type = "error"
      /\ events[r][Len(events[r])].message \in CauseOf(s)
      /\ calls[r][Len(calls[r])] = s
      /\ EventsOf(r, "complete") = {}
      /\ video_jobs[r] = <<>>

\* one run failed at the download, the other at the transcription; both ended
C9_Witness ==
  \E r1 \in Runs, r2 \in Runs :
    /\ pc[r1] = "done" /\ ~closed[r1] /\ "download" \in failed[r1]
    /\ pc[r2] = "done" /\ ~closed[r2] /\ "transcribe" \in failed[r2]

\* C10: when get_video_info fails the title is "Unknown_Video" and the run
\* goes on: an error event needs another stage to fail, and a run in which
\* nothing else fails fatally, and which the client does not abort, emits
\* complete with the title "Unknown_Video" and saves the row under that title.
C10_MetadataFailureNotFatal ==
  \A r \in Runs :
    "metadata" \in failed[r] =>
      /\ video_title[r] = "Unknown_Video"
      /\ EventsOf(r, "error") # {} => failed[r] \ {"metadata", "stream"} # {}
      /\ (LeftTry(r) /\ ~closed[r] /\ failed[r] \subseteq {"metadata", "stream"}) =>
           /\ \E i \in EventsOf(r, "complete") : events[r][i].video_title = "Unknown_Video"
           /\ Len(video_jobs[r]) = 1
           /\ video_jobs[r][1].video_title = "Unknown_Video"

\* metadata failed, nothing else did, and the run completed and ended
C10_Witness ==
  \E r \in Runs :
    /\ failed[r] = {"metadata"}
    /\ pc[r] = "done" /\ ~closed[r]
    /\ EventsOf(r, "complete") # {}

\* the types of the events of one run, in order
TypesOf(r) == [i \in DOMAIN events[r] |-> events[r][i].type]

\* the happy-path scenario: nothing failed, the client stayed, the video is
\* titled "Test Video", the recognizer heard "hello world" and the stream
\* yielded "Hello", " world", "."
HappyPath(r) ==
  /\ pc[r] = "done" /\ ~closed[r] /\ failed[r] = {}
  /\ video_title[r] = "Test Video"
  /\ transcript[r] = "hello world"
  /\ nchunks[r] = 3

HappyPathJob(r) ==
  /\ Len(video_jobs[r]) = 1
  /\ video_jobs[r][1].transcript = "hello world"
  /\ video_jobs[r][1].summary = "Hello world."
  /\ video_jobs[r][1].video_title = "Test Video"

\* C11 as stated: in the happy-path scenario the events are three status
\* events, the transcript "hello world", one status, the chunks "Hello",
\* " world", ".", the saving status and complete("Test Video"), and the job
\* store holds one row with transcript "hello world" and summary "Hello world.".
C11_ThreeStatusesBeforeTranscript ==
  \A r \in Runs : HappyPath(r) =>
    /\ TypesOf(r) = <<"status", "status", "status", "transcript", "status",
                      "summary_chunk", "summary_chunk", "summary_chunk",
                      "status", "complete">>
    /\ HappyPathJob(r)

\* C11 amended: in the happy-path scenario the events are five status events
\* (starting, getting information, found video, downloading, transcribing),
\* the transcript "hello world", the generating status, the chunks "Hello",
\* " world", ".", the saving status and complete("Test Video"), and the job
\* store holds one row with transcript "hello world" and summary "Hello world.".
C11_HappyPathScenario ==
  \A r \in Runs : HappyPath(r) =>
    /\ events[r] =
         << StatusEv("Starting video processing..."),
            StatusEv("Getting video information..."),
            StatusEv("Found video: Test Video"),
            StatusEv("Downloading audio..."),
            StatusEv("Transcribing audio to text..."),
            TranscriptEv("hello world"),
            StatusEv("Generating AI summary... (Live typing)"),
            ChunkEv("Hello"), ChunkEv(" world"), ChunkEv("."),
            StatusEv("Saving to database..."),
            CompleteEv("Test Video") >>
    /\ HappyPathJob(r)

C11_Witness ==
  \E r \in Runs : HappyPath(r) /\ Len(events[r]) = 12 /\ HappyPathJob(r)

\* C12: a failure of the cleanup (removing the temp audio file, removing a
\* swept artifact) is swallowed: the run goes on to the next cleanup step or
\* ends, the events and the response stay as they were when the try block
\* was left, and every error event of the run comes from a failed stage.
C12_CleanupFailuresSwallowed ==
  /\ [](\A r \in Runs :
          /\ swallowed[r] # {} => LeftTry(r)
          /\ (LeftTry(r) /\ EventsOf(r, "error") # {}) =>
               failed[r] \ {"metadata", "stream"} # {}
          /\ (LeftTry(r) /\ ~closed[r]) =>
               /\ Cardinality(Terminals(r)) = 1
               /\ Terminals(r) = {Len(events[r])})
  /\ [][\A r \in Runs :
          /\ LeftTry(r) =>
               /\ events'[r] = events[r]
               /\ response'[r] = response[r]
               /\ video_jobs'[r] = video_jobs[r]
               /\ pc'[r] \in CleanupPcs \cup {"done"}
          /\ (pc[r] = "cl_remove" /\ pc'[r] # pc[r]) => pc'[r] = "cl_listdir"
          /\ swallowed'[r] # swallowed[r] => pc'[r] \in {"cl_listdir", "done"}
      ]_vars

\* a run completed, then both os.remove calls of its cleanup raised
C12_Witness ==
  \E r \in Runs :
    /\ pc[r] = "done" /\ ~closed[r]
    /\ swallowed[r] = {"remove", "sweep"}
    /\ EventsOf(r, "complete") = {Len(events[r])}

\* C14: when a download starts (ydl.download is about to run) no artifact
\* named temp_audio* is in the working directory, and the file download_audio
\* returns to a run was written by that run's download.
C14_DownloadOwnsReservedName ==
  /\ [](\A r \in Runs : pc[r] = "dl_fetch" =>
          \A f \in Names : StartsWithTempAudio(f) => disk[f] = NoFile)
  /\ [][\A r \in Runs :
          (pc[r] = "dl_getsize" /\ pc'[r] = "y_transcribing") =>
             disk[WAV] = Writer(r)
      ]_vars

\* ---------------------------------------------- transcribe_audio on its own
\* generate() has been handed temp_audio.wav and is about to transcribe it;
\* the audio in the file is any of Clips.
TranscribeInit ==
  /\ pc = [r \in Runs |-> IF r = 1 THEN "y_transcribing" ELSE "idle"]
  /\ data = [r \in Runs |-> NoBody]
  /\ response = [r \in Runs |->
       IF r = 1 THEN [status |-> 200, error |-> None] ELSE NoResponse]
  /\ video_url = [r \in Runs |-> IF r = 1 THEN Join(UrlCore(1)) ELSE ""]
  /\ events = [r \in Runs |->
       IF r = 1
       THEN << StatusEv("Starting video processing..."),
               StatusEv("Getting video information..."),
               StatusEv("Found video: Test Video"),
               StatusEv("Downloading audio..."),
               StatusEv("Transcribing audio to text...") >>
       ELSE <<>>]
  /\ video_title = [r \in Runs |-> IF r = 1 THEN "Test Video" ELSE None]
  /\ audio_file = [r \in Runs |-> IF r = 1 THEN WAV ELSE NoAudio]
  /\ heard = [r \in Runs |-> None]
  /\ transcript = [r \in Runs |-> None]
  /\ summary = [r \in Runs |-> ""]
  /\ nchunks = [r \in Runs |-> 0]
  /\ todo = [r \in Runs |-> {}]
  /\ calls = [r \in Runs |-> IF r = 1 THEN <<"metadata", "download">> ELSE <<>>]
  /\ failed = [r \in Runs |-> {}]
  /\ cleanups = [r \in Runs |-> 0]
  /\ swallowed = [r \in Runs |-> {}]
  /\ closed = [r \in Runs |-> FALSE]
  /\ \E clip \in Clips :
       disk = [f \in Names |->
                 IF f = WAV THEN clip ELSE IF f = DBFILE THEN "db" ELSE NoFile]
  /\ video_jobs = [r \in Runs |-> <<>>]

\* the rest of generate() from the transcription on
TranscribeNext ==
  \/ Transcribe(1)
  \/ Generating(1)
  \/ StreamChunk(1)
  \/ StreamRaise(1)
  \/ StreamEnd(1)
  \/ Fallback(1)
  \/ Saving(1)
  \/ Save(1)
  \/ Finish(1)
  \/ Disconnect(1)
  \/ ClRemove(1)
  \/ ClListdir(1)

TranscribeSpec == TranscribeInit /\ [][TranscribeNext]_vars

\* C15: a transcription that returned gave the trimmed decoded text when that
\* has three characters or more and the sentinel otherwise, never a text
\* shorter than three characters, and that text is the transcript event; a
\* transcription that failed gave no transcript and ended the run with a
\* "Transcription failed" error.
C15_TranscriptNeverTooShort ==
  \A r \in Runs :
    /\ (CallCount(r, "transcribe") = 1 /\ "transcribe" \notin failed[r]) =>
         LET t == Strip(DecodedOf(heard[r]))
         IN  /\ transcript[r] = (IF Len(t) \in {0, 1, 2} THEN NoSpeech ELSE Join(t))
             /\ Len(transcript[r]) >= 3
             /\ \E i \in EventsOf(r, "transcript") :
                  events[r][i] = TranscriptEv(transcript[r])
    /\ "transcribe" \in failed[r] =>
         /\ transcript[r] = None
         /\ EventsOf(r, "transcript") = {}
         /\ events[r][Len(events[r])].type = "error"
         /\ events[r][Len(events[r])].message \in CauseOf("transcribe")

\* a three-letter word was returned as it is and silence gave the sentinel
C15_Witness ==
  \E r \in Runs :
    /\ heard[r] = "three" /\ transcript[r] = "abc"
    /\ "transcribe" \notin failed[r]
    /\ pc[r] = "done"

\* the status events up to the transcription, for the title the run found
Prelude(r) ==
  << StatusEv("Starting video processing..."),
     StatusEv("Getting video information..."),
     StatusEv("Found video: " \o video_title[r]),
     StatusEv("Downloading audio..."),
     StatusEv("Transcribing audio to text...") >>

\* C16: a run that completed without a summarizer failure emitted exactly the
\* five stage statuses, the transcript, the generating status, one
\* summary_chunk per chunk of the stream in its order, the saving status and
\* complete; in every run a transcript event follows a successful download
\* and transcription, and every summary_chunk follows the transcript event
\* and precedes the saving status and the database write.
C16_StageOrder ==
  \A r \in Runs :
    /\ (EventsOf(r, "complete") # {} /\ "stream" \notin failed[r]) =>
         events[r] =
           Prelude(r)
           \o << TranscriptEv(transcript[r]),
                 StatusEv("Generating AI summary... (Live typing)") >>
           \o [k \in 1 .. nchunks[r] |-> ChunkEv(ChunkAt(k))]
           \o << StatusEv("Saving to database..."), CompleteEv(video_title[r]) >>
    /\ \A i \in EventsOf(r, "transcript") :
         /\ CallCount(r, "download") = 1 /\ CallCount(r, "transcribe") = 1
         /\ failed[r] \cap {"download", "transcribe"} = {}
         /\ i = 6 /\ SubSeq(events[r], 1, 5) = Prelude(r)
    /\ \A j \in EventsOf(r, "summary_chunk") :
         /\ \E i \in EventsOf(r, "transcript") : i < j
         /\ \A k \in DOMAIN events[r] :
              events[r][k] = StatusEv("Saving to database...") => j < k
    /\ CallCount(r, "db") > 0 =>
         events[r][Len(events[r]) - (IF pc[r] = "y_saving" THEN 0 ELSE 1)]
           = StatusEv("Saving to database...")

C16_Witness ==
  \E r \in Runs :
    /\ pc[r] = "done" /\ failed[r] = {} /\ EventsOf(r, "complete") = {9 + MaxChunks}
    /\ Cardinality(EventsOf(r, "summary_chunk")) = MaxChunks

\* C18: the audio a run transcribed is the file its own download wrote, and
\* the transcript it emitted and saved under its URL and owner is the text of
\* that audio.
C18_TranscribesOwnAudio ==
  \A r \in Runs :
    /\ heard[r] # None => heard[r] = Writer(r)
    /\ \A i \in EventsOf(r, "transcript") :
         events[r][i].data = TranscriptOf(DecodedOf(Writer(r)))
    /\ \A k \in DOMAIN video_jobs[r] :
         video_jobs[r][k].transcript = TranscriptOf(DecodedOf(Writer(r)))

RECURSIVE ChunkText(_)
\* what a client gets by appending the payloads of the summary_chunk events
ChunkText(evs) ==
  IF evs = <<>> THEN ""
  ELSE (IF evs[1].type = "summary_chunk" THEN evs[1].data ELSE "")
       \o ChunkText(Tail(evs))

\* the events after the fallback status, all events if there is none
SinceFallback(r) ==
  IF FallbackAt(r) = {} THEN events[r]
  ELSE LET i == CHOOSE i \in FallbackAt(r) : TRUE
       IN  SubSeq(events[r], i + 1, Len(events[r]))

\* C19 as stated: in every run that reached complete, the saved summary is
\* the concatenation of the payloads of all summary_chunk events of the run.
C19_SavedIsAllChunks ==
  \A r \in Runs : EventsOf(r, "complete") # {} =>
    /\ Len(video_jobs[r]) = 1
    /\ video_jobs[r][1].summary = ChunkText(events[r])

\* C19 amended: in every run that reached complete, the saved summary is the
\* concatenation of the payloads of the summary_chunk events emitted after
\* the fallback status when there is one, and of all summary_chunk events
\* otherwise; chunks emitted before a failure of the stream are not part of it.
C19_SavedIsChunksSinceFallback ==
  \A r \in Runs : EventsOf(r, "complete") # {} =>
    /\ Len(video_jobs[r]) = 1
    /\ video_jobs[r][1].summary = ChunkText(SinceFallback(r))
    /\ Cardinality(FallbackAt(r)) <= 1
    /\ ("stream" \notin failed[r] \/ nchunks[r] = 0) =>
         video_jobs[r][1].summary = ChunkText(events[r])
    /\ ("stream" \in failed[r] /\ nchunks[r] > 0) =>
         /\ video_jobs[r][1].summary # ChunkText(events[r])
         /\ video_jobs[r][1].summary = events[r][Len(events[r]) - 2].data

\* a run completed after its stream failed with chunks already sent
C19_Witness ==
  \E r \in Runs :
    /\ EventsOf(r, "complete") # {} /\ pc[r] = "done"
    /\ "stream" \in failed[r] /\ nchunks[r] = 2
    /\ video_jobs[r][1].summary = ChunkText(SinceFallback(r))
    /\ Cardinality(EventsOf(r, "summary_chunk")) = 3

\* --------------------------------------------------- one request on its own
\* the steps of the thread that serves request r
Step(r) ==
  \/ Receive(r)
  \/ Validate(r)
  \/ Starting(r)
  \/ Construct(r)
  \/ GetInfo(r)
  \/ Downloading(r)
  \/ DlListdir(r)
  \/ DlSweep(r)
  \/ DlFetch(r)
  \/ DlExists(r)
  \/ DlReturn(r)
  \/ Transcribe(r)
  \/ Generating(r)
  \/ StreamChunk(r)
  \/ StreamRaise(r)
  \/ StreamEnd(r)
  \/ Fallback(r)
  \/ Saving(r)
  \/ Save(r)
  \/ Finish(r)
  \/ Disconnect(r)
  \/ ClRemove(r)
  \/ ClListdir(r)
  \/ ClSweep(r)

SoloNext == Step(1)

SoloSpec == Init /\ [][SoloNext]_vars

\* ------------------------------------------------------- the client's side
\* where the first "\n\n" of w begins, 0 if w has none
FirstBlankLine(w) ==
  LET at == { i \in 1 .. Len(w) - 1 : w[i] = "\n" /\ w[i + 1] = "\n" }
  IN  IF at = {} THEN 0 ELSE CHOOSE i \in at : \A k \in at : i <= k

RECURSIVE SplitFrames(_)
\* body.split("\n\n")
SplitFrames(w) ==
  LET i == FirstBlankLine(w)
  IN  IF i = 0 THEN <<w>>
      ELSE <<SubSeq(w, 1, i - 1)>> \o SplitFrames(SubSeq(w, i + 2, Len(w)))

Invalid == [invalid |-> TRUE]

\* the closing quote of the string that opens at toks[1], 0 if there is none
ClosingQuote(toks) ==
  IF toks = <<>> \/ toks[1] # Quote THEN 0
  ELSE LET js == { j \in 2 .. Len(toks) : toks[j] = Quote }
       IN  IF js = {} THEN 0 ELSE CHOOSE j \in js : \A k \in js : j <= k

\* the text of the string toks[1 .. j]; a raw control character is an error
StringText(toks, j) ==
  Join([i \in 1 .. j - 2 |-> UnescapePiece(toks[i + 1])])

RawControl(toks, j) == \E i \in 2 .. j - 1 : toks[i] \in {"\n", "\t"}

RECURSIVE ReadMembers(_, _)
\* json.loads after the opening brace: acc holds the members read so far
ReadMembers(toks, acc) ==
  LET j == ClosingQuote(toks)
      afterKey == SubSeq(toks, j + 1, Len(toks))
      v == ClosingQuote(Tail(afterKey))
      rest == SubSeq(afterKey, v + 2, Len(afterKey))
  IN  IF j = 0 \/ RawControl(toks, j) \/ afterKey = <<>> \/ afterKey[1] # ": "
      THEN Invalid
      ELSE IF v = 0 \/ RawControl(Tail(afterKey), v) THEN Invalid
      ELSE LET got == Append(acc, <<StringText(toks, j), StringText(Tail(afterKey), v)>>)
           IN  IF rest = <<"}">>
               THEN [k \in { got[i][1] : i \in DOMAIN got } |->
                       LET i == CHOOSE i \in DOMAIN got : got[i][1] = k IN got[i][2]]
               ELSE IF rest # <<>> /\ rest[1] = ", "
                    THEN ReadMembers(Tail(rest), got)
                    ELSE Invalid

\* json.loads of one piece of the body
Loads(toks) ==
  IF toks = <<>> \/ toks[1] # "{" THEN Invalid ELSE ReadMembers(Tail(toks), <<>>)

\* the pieces of the body a client reads as frames
FramesOf(r) == SplitFrames(Written(events[r]))

\* the pieces that hold anything
NonEmpty(frames) == SelectSeq(frames, LAMBDA f : f # <<>>)

\* C17 as stated: every piece between double newlines is one JSON object, and
\* parsing the pieces gives the emitted events in order.
C17_FramesAreJson ==
  \A r \in Runs :
    LET frames == NonEmpty(FramesOf(r))
    IN  /\ Len(frames) = Len(events[r])
        /\ \A i \in DOMAIN events[r] : Loads(frames[i]) = events[r][i]

\* C17 amended: the body is one frame per event, each frame the prefix
\* "data: " followed by one JSON object and a blank line; splitting the body
\* on double newlines gives one piece per event in order and an empty last
\* piece, and parsing a piece after its prefix gives the event.
C17_FramingRoundTrips ==
  \A r \in Runs :
    LET frames == FramesOf(r)
    IN  /\ Len(frames) = Len(events[r]) + 1
        /\ frames[Len(frames)] = <<>>
        /\ \A i \in DOMAIN events[r] :
             /\ frames[i] # <<>> /\ frames[i][1] = "data: "
             /\ Loads(Tail(frames[i])) = events[r][i]
             /\ \A k \in DOMAIN frames[i] : frames[i][k] # "\n"

\* a summary chunk with a blank line and a quote in it went over the wire
C17_Witness ==
  \E r \in Runs : \E i \in EventsOf(r, "summary_chunk") :
    /\ events[r][i].data = OneShotSummary
    /\ \E a \in DOMAIN OneShotPieces :
         OneShotPieces[a] = "\n" /\ OneShotPieces[a + 1] = "\n"
    /\ Loads(Tail(FramesOf(r)[i])) = events[r][i]
    /\ EventsOf(r, "complete") # {}

\* the server keeps pulling the generator and every collaborator call returns
\* or raises: the thread of a request does not stop while it has a step
FairSoloSpec == SoloSpec /\ WF_vars(Step(1))

\* the most events a run can yield: five statuses, the transcript, the
\* generating status, the chunks, the fallback status and its chunk, the
\* saving status and the terminal event
MostEvents == 11 + MaxChunks

\* C20: every run of generate() ends: it reaches the end of its cleanup, having
\* entered it once, and unless the client aborted it, its last event is its
\* one terminal event; the events never exceed MostEvents, no collaborator
\* is called twice, and a run that ended stays as it is.
C20_EveryRunEnds ==
  /\ \A r \in Runs :
       Streaming(r) ~>
         (/\ pc[r] = "done" /\ cleanups[r] = 1
          /\ closed[r] \/ (Cardinality(Terminals(r)) = 1 /\ Terminals(r) = {Len(events[r])}))
  /\ [](\A r \in Runs :
          /\ Len(events[r]) <= MostEvents
          /\ \A i, j \in DOMAIN calls[r] : calls[r][i] = calls[r][j] => i = j)
  /\ [][\A r \in Runs : pc[r] = "done" => (pc'[r] = "done" /\ events'[r] = events[r])]_vars

\* the longest run: the stream failed after its last chunk, the fallback
\* worked, the job was saved and the cleanup ran
C20_Witness ==
  \E r \in Runs :
    /\ pc[r] = "done" /\ ~closed[r] /\ cleanups[r] = 1
    /\ Len(events[r]) = MostEvents
    /\ Terminals(r) = {MostEvents}

\* ------------------------------------------------ POST /process-video
\* what of the state the synchronous view never touches
untouched == <<events, nchunks, cleanups, swallowed, closed>>

\* a request arrives at /process-video: data = request.get_json()
SReceive(r) ==
  /\ pc[r] = "idle"
  /\ \E b \in Bodies(r) : data' = [data EXCEPT ![r] = b]
  /\ pc' = [pc EXCEPT ![r] = "s_view"]
  /\ UNCHANGED <<response, video_url, video_title, audio_file, heard,
                 transcript, summary, todo, calls, failed, disk, video_jobs,
                 untouched>>

\* process_video from `if not data` to the construction of the converter
SValidate(r) ==
  /\ pc[r] = "s_view"
  /\ IF data[r] = NoBody
     THEN /\ response' = [response EXCEPT ![r] = [status |-> 400, error |-> "No JSON data provided"]]
          /\ pc' = [pc EXCEPT ![r] = "s_done"]
          /\ UNCHANGED video_url
     ELSE /\ video_url' = [video_url EXCEPT ![r] = Join(Strip(data[r].video_url))]
          /\ IF UrlMissing(data[r].video_url)
             THEN /\ response' = [response EXCEPT ![r] = [status |-> 400, error |-> "Video URL is required"]]
                  /\ pc' = [pc EXCEPT ![r] = "s_done"]
             ELSE /\ pc' = [pc EXCEPT ![r] = "s_construct"]
                  /\ UNCHANGED response
  /\ data' = [data EXCEPT ![r] =
       IF data[r] # NoBody /\ ~UrlMissing(data[r].video_url) THEN NoBody ELSE @]
  /\ UNCHANGED <<video_title, audio_file, heard, transcript, summary, todo,
                 calls, failed, disk, video_jobs, untouched>>

\* converter = SimpleVideoToText(); its failure reaches except Exception
SConstruct(r) ==
  /\ pc[r] = "s_construct"
  /\ \/ /\ pc' = [pc EXCEPT ![r] = "s_info"]
        /\ UNCHANGED <<failed, response>>
     \/ /\ failed' = [failed EXCEPT ![r] = @ \cup {"init"}]
        /\ response' = [response EXCEPT ![r] =
             [status |-> 500,
              error |-> "Video processing failed: ffmpeg or ffprobe not found in 'ffmpeg/bin'. Please install FFmpeg correctly."]]
        /\ pc' = [pc EXCEPT ![r] = "s_done"]
  /\ UNCHANGED <<data, video_url, video_title, audio_file, heard, transcript,
                 summary, todo, calls, disk, video_jobs, untouched>>

\* SimpleVideoToText.process_video: video_title, video_id = self.get_video_info(video_url)
SInfo(r) ==
  /\ pc[r] = "s_info"
  /\ \/ \E t \in RawTitles :
          /\ Call(r, "metadata")
          /\ video_title' = [video_title EXCEPT ![r] = Join(SanitizeTitle(t))]
     \/ /\ CallFails(r, "metadata")
        /\ video_title' = [video_title EXCEPT ![r] = "Unknown_Video"]
  /\ pc' = [pc EXCEPT ![r] = "s_dl_listdir"]
  /\ UNCHANGED <<data, response, video_url, audio_file, heard, transcript,
                 summary, todo, disk, video_jobs, untouched>>

\* download_audio: for file in os.listdir('.')
SDlListdir(r) ==
  /\ pc[r] = "s_dl_listdir"
  /\ todo' = [todo EXCEPT ![r] = SweepList]
  /\ pc' = [pc EXCEPT ![r] = IF SweepList = {} THEN "s_dl_fetch" ELSE "s_dl_sweep"]
  /\ UNCHANGED <<data, response, video_url, video_title, audio_file, heard,
                 transcript, summary, calls, failed, disk, video_jobs, untouched>>

\* download_audio: one pass of the loop body; a failing os.remove is passed over
SDlSweep(r) ==
  /\ pc[r] = "s_dl_sweep"
  /\ \E f \in todo[r] :
       /\ todo' = [todo EXCEPT ![r] = @ \ {f}]
       /\ disk' = [disk EXCEPT ![f] = NoFile]
       /\ pc' = [pc EXCEPT ![r] = IF todo[r] = {f} THEN "s_dl_fetch" ELSE "s_dl_sweep"]
  /\ UNCHANGED <<data, response, video_url, video_title, audio_file, heard,
                 transcript, summary, calls, failed, video_jobs, untouched>>

\* download_audio: ydl.download([video_url]); a failure goes to process_video's except
SDlFetch(r) ==
  /\ pc[r] = "s_dl_fetch"
  /\ \/ /\ Call(r, "download")
        /\ disk' = [disk EXCEPT ![WAV] = Writer(r), ![WEBM] = NoFile]
        /\ pc' = [pc EXCEPT ![r] = "s_dl_exists"]
     \/ /\ CallFails(r, "download")
        /\ \/ UNCHANGED disk
           \/ disk' = [disk EXCEPT ![WEBM] = Writer(r)]
        /\ pc' = [pc EXCEPT ![r] = "s_except"]
  /\ UNCHANGED <<data, response, video_url, video_title, audio_file, heard,
                 transcript, summary, todo, video_jobs, untouched>>

\* download_audio: if not os.path.exists(audio_file): raise
SDlExists(r) ==
  /\ pc[r] = "s_dl_exists"
  /\ IF disk[WAV] = NoFile
     THEN /\ pc' = [pc EXCEPT ![r] = "s_except"]
          /\ failed' = [failed EXCEPT ![r] = @ \cup {"download"}]
     ELSE /\ pc' = [pc EXCEPT ![r] = "s_dl_getsize"]
          /\ UNCHANGED failed
  /\ UNCHANGED <<data, response, video_url, video_title, audio_file, heard,
                 transcript, summary, todo, calls, disk, video_jobs, untouched>>

\* download_audio: os.path.getsize(audio_file); return audio_file
SDlReturn(r) ==
  /\ pc[r] = "s_dl_getsize"
  /\ IF disk[WAV] = NoFile
     THEN /\ pc' = [pc EXCEPT ![r] = "s_except"]
          /\ failed' = [failed EXCEPT ![r] = @ \cup {"download"}]
          /\ UNCHANGED audio_file
     ELSE /\ audio_file' = [audio_file EXCEPT ![r] = WAV]
          /\ pc' = [pc EXCEPT ![r] = "s_transcribe"]
          /\ UNCHANGED failed
  /\ UNCHANGED <<data, response, video_url, video_title, heard, transcript,
                 summary, todo, calls, disk, video_jobs, untouched>>

\* process_video: transcript = self.transcribe_audio(audio_file)
STranscribe(r) ==
  /\ pc[r] = "s_transcribe"
  /\ \/ /\ disk[audio_file[r]] # NoFile
        /\ Call(r, "transcribe")
        /\ heard' = [heard EXCEPT ![r] = disk[audio_file[r]]]
        /\ transcript' = [transcript EXCEPT ![r] = TranscriptOf(DecodedOf(disk[audio_file[r]]))]
        /\ pc' = [pc EXCEPT ![r] = "s_summarize"]
     \/ /\ CallFails(r, "transcribe")
        /\ pc' = [pc EXCEPT ![r] = "s_except"]
        /\ UNCHANGED <<heard, transcript>>
  /\ UNCHANGED <<data, response, video_url, video_title, audio_file, summary,
                 todo, disk, video_jobs, untouched>>

\* process_video: summary = self.generate_summary(transcript)
SSummarize(r) ==
  /\ pc[r] = "s_summarize"
  /\ \/ /\ Call(r, "invoke")
        /\ summary' = [summary EXCEPT ![r] = OneShotSummary]
        /\ pc' = [pc EXCEPT ![r] = "s_files"]
     \/ /\ CallFails(r, "invoke")
        /\ pc' = [pc EXCEPT ![r] = "s_except"]
        /\ UNCHANGED summary
  /\ UNCHANGED <<data, response, video_url, video_title, audio_file, heard,
                 transcript, todo, disk, video_jobs, untouched>>

\* process_video: self.save_transcript(...); self.save_summary(...)
SSaveFiles(r) ==
  /\ pc[r] = "s_files"
  /\ \/ Call(r, "files") /\ pc' = [pc EXCEPT ![r] = "s_cleanup"]
     \/ CallFails(r, "files") /\ pc' = [pc EXCEPT ![r] = "s_except"]
  /\ UNCHANGED <<data, response, video_url, video_title, audio_file, heard,
                 transcript, summary, todo, disk, video_jobs, untouched>>

\* process_video: if os.path.exists(audio_file)
SCleanExists(r) ==
  /\ pc[r] = "s_cleanup"
  /\ pc' = [pc EXCEPT ![r] = IF disk[audio_file[r]] = NoFile THEN "s_info2" ELSE "s_remove"]
  /\ UNCHANGED <<data, response, video_url, video_title, audio_file, heard,
                 transcript, summary, todo, calls, failed, disk, video_jobs,
                 untouched>>

\* process_video: os.remove(audio_file), inside the try; return transcript, summary
SRemove(r) ==
  /\ pc[r] = "s_remove"
  /\ IF disk[audio_file[r]] = NoFile
     THEN /\ failed' = [failed EXCEPT ![r] = @ \cup {"remove"}]
          /\ pc' = [pc EXCEPT ![r] = "s_except"]
          /\ UNCHANGED disk
     ELSE /\ disk' = [disk EXCEPT ![audio_file[r]] = NoFile]
          /\ pc' = [pc EXCEPT ![r] = "s_info2"]
          /\ UNCHANGED failed
  /\ UNCHANGED <<data, response, video_url, video_title, audio_file, heard,
                 transcript, summary, todo, calls, video_jobs, untouched>>

\* process_video: except Exception: for file in os.listdir('.'); return None, None
SExListdir(r) ==
  /\ pc[r] = "s_except"
  /\ todo' = [todo EXCEPT ![r] = SweepList]
  /\ IF SweepList = {}
     THEN /\ transcript' = [transcript EXCEPT ![r] = None]
          /\ summary' = [summary EXCEPT ![r] = None]
          /\ pc' = [pc EXCEPT ![r] = "s_info2"]
     ELSE /\ pc' = [pc EXCEPT ![r] = "s_ex_sweep"]
          /\ UNCHANGED <<transcript, summary>>
  /\ UNCHANGED <<data, response, video_url, video_title, audio_file, heard,
                 calls, failed, disk, video_jobs, untouched>>

\* process_video: except Exception: try: os.remove(file) except: pass;
\* after the last file: return None, None
SExSweep(r) ==
  /\ pc[r] = "s_ex_sweep"
  /\ \E f \in todo[r] :
       /\ todo' = [todo EXCEPT ![r] = @ \ {f}]
       /\ disk' = [disk EXCEPT ![f] = NoFile]
       /\ IF todo[r] = {f}
          THEN /\ transcript' = [transcript EXCEPT ![r] = None]
               /\ summary' = [summary EXCEPT ![r] = None]
               /\ pc' = [pc EXCEPT ![r] = "s_info2"]
          ELSE /\ UNCHANGED <<transcript, summary, pc>>
  /\ UNCHANGED <<data, response, video_url, video_title, audio_file, heard,
                 calls, failed, video_jobs, untouched>>

\* app.process_video: video_title, _ = converter.get_video_info(video_url)
SInfo2(r) ==
  /\ pc[r] = "s_info2"
  /\ \/ \E t \in RawTitles :
          /\ Call(r, "metadata")
          /\ video_title' = [video_title EXCEPT ![r] = Join(SanitizeTitle(t))]
     \/ /\ CallFails(r, "metadata")
        /\ video_title' = [video_title EXCEPT ![r] = "Unknown_Video"]
  /\ pc' = [pc EXCEPT ![r] = "s_save"]
  /\ UNCHANGED <<data, response, video_url, audio_file, heard, transcript,
                 summary, todo, disk, video_jobs, untouched>>

\* Python truth of a str or None
Truthy(x) == x \notin {None, ""}

\* jsonify({...}), 200
Processed(r) ==
  [status |-> 200, error |-> None, message |-> "Video processed successfully",
   video_title |-> video_title[r], transcript |-> transcript[r],
   summary |-> summary[r]]

\* variant: the job is written whatever process_video returned
SSave_Unchecked(r) ==
  /\ pc[r] = "s_save"
  /\ \/ /\ Call(r, "db")
        /\ video_jobs' = [video_jobs EXCEPT ![r] = Append(@, JobRow(r))]
        /\ response' = [response EXCEPT ![r] = Processed(r)]
     \/ /\ CallFails(r, "db")
        /\ response' = [response EXCEPT ![r] = [status |-> 500, error |-> "Database error occurred"]]
        /\ UNCHANGED video_jobs
  /\ pc' = [pc EXCEPT ![r] = "s_done"]
  /\ UNCHANGED <<data, video_url, video_title, audio_file, heard, transcript,
                 summary, todo, disk, untouched>>

\* app.process_video: if transcript and summary: INSERT, 200; else 500
SSave(r) ==
  /\ pc[r] = "s_save"
  /\ IF Truthy(transcript[r]) /\ Truthy(summary[r])
     THEN \/ /\ Call(r, "db")
             /\ video_jobs' = [video_jobs EXCEPT ![r] = Append(@, JobRow(r))]
             /\ response' = [response EXCEPT ![r] = Processed(r)]
          \/ /\ CallFails(r, "db")
             /\ response' = [response EXCEPT ![r] = [status |-> 500, error |-> "Database error occurred"]]
             /\ UNCHANGED video_jobs
     ELSE /\ response' = [response EXCEPT ![r] = [status |-> 500, error |-> "Failed to process video"]]
          /\ UNCHANGED <<calls, failed, video_jobs>>
  /\ pc' = [pc EXCEPT ![r] = "s_done"]
  /\ UNCHANGED <<data, video_url, video_title, audio_file, heard, transcript,
                 summary, todo, disk, untouched>>

\* the steps of the thread that serves a /process-video request
SyncStep(r) ==
  \/ SReceive(r)
  \/ SValidate(r)
  \/ SConstruct(r)
  \/ SInfo(r)
  \/ SDlListdir(r)
  \/ SDlSweep(r)
  \/ SDlFetch(r)
  \/ SDlExists(r)
  \/ SDlReturn(r)
  \/ STranscribe(r)
  \/ SSummarize(r)
  \/ SSaveFiles(r)
  \/ SCleanExists(r)
  \/ SRemove(r)
  \/ SExListdir(r)
  \/ SExSweep(r)
  \/ SInfo2(r)
  \/ SSave(r)

\* request 1 goes to /process-video-stream, request 2 to /process-video
SyncNext == Step(1) \/ SyncStep(2)

SyncSpec == Init /\ [][SyncNext]_vars

\* the synchronous request has been answered
Answered(y) == pc[y] = "s_done"

\* every collaborator that both requests called did the same for both
SameOutcomes(s, y) ==
  /\ ("init" \in failed[s]) <=> ("init" \in failed[y])
  /\ \A i \in DOMAIN calls[s] : \A j \in DOMAIN calls[y] :
       calls[s][i] = calls[y][j] =>
         ((calls[s][i] \in failed[s]) <=> (calls[y][j] \in failed[y]))

====
